---- MODULE Spec2Model ----
(***************************************************************************)
(* server.js: an Express proxy in front of the HubSpot CRM API.  Each      *)
(* route handler is an async function; it runs atomically up to an         *)
(* `await` of an upstream call, is suspended there, and resumes with the   *)
(* call's outcome.  The model has one slot per inbound request being       *)
(* handled, one action per handler segment between suspension points, and  *)
(* an environment that resolves every upstream call with a success or a    *)
(* failure of its choosing.                                                *)
(*                                                                         *)
(* JavaScript values are tagged records ([t |-> "string", v |-> ...]), so  *)
(* that truthiness (`||`, `!x`, filter(Boolean)), optional chaining (`?.`) *)
(* and property access on null/undefined (a TypeError) behave as they do   *)
(* in the runtime.  Strings are sequences of one-character strings.        *)
(***************************************************************************)
EXTENDS Integers, Sequences, FiniteSets, TLC

\* ---- bounds of the model ----
NReq == 2        \* request slots (requests that can be in progress together)
MaxAssoc == 2    \* longest association listing the CRM returns

Req == 1..NReq

\* ---- program constants ----
CONFLICT_STATUS == 409
ASSOCIATION_TYPE_ID == 3
CONTACTS_LIMIT == 50
DEALS_LIMIT == 50
ASSOCIATIONS_LIMIT == 100
SEARCH_LIMIT == 1
HUBSPOT_API_BASE ==
    <<"h", "t", "t", "p", "s", ":", "/", "/", "a", "p", "i", ".", "h", "u",
      "b", "a", "p", "i", ".", "c", "o", "m">>
HUBSPOT_ACCESS_TOKEN == <<"T", "0", "K">>

\* ---- JavaScript values ----
Undef == [t |-> "undefined"]
Null == [t |-> "null"]
Str(s) == [t |-> "string", v |-> s]
Num(n) == [t |-> "number", v |-> n]
Arr(s) == [t |-> "array", v |-> s]
EmptyObject == [t |-> "object"]

\* ToBoolean
Truthy(x) ==
    CASE x.t \in {"undefined", "null"} -> FALSE
      [] x.t = "string" -> x.v # <<>>
      [] x.t = "number" -> x.v # 0
      [] OTHER -> TRUE

\* a || b
Or(a, b) == IF Truthy(a) THEN a ELSE b

\* x.f raises a TypeError exactly when x is null or undefined
Throws(x) == x.t \in {"undefined", "null"}

\* x?.f, and x.f where x is neither null nor undefined
Get(x, f) == IF x.t = "object" /\ f \in DOMAIN x THEN x[f] ELSE Undef

\* ---- message.match(/Existing ID:\s*(\d+)/) ----
Literal == <<"E", "x", "i", "s", "t", "i", "n", "g", " ", "I", "D", ":">>
Digit == {"0", "1", "2", "3", "4", "5", "6", "7", "8", "9"}
Space == {" ", "\t", "\n"}

LiteralAt(m, i) ==
    /\ i + Len(Literal) - 1 <= Len(m)
    /\ \A k \in 1..Len(Literal) : m[i + k - 1] = Literal[k]

RECURSIVE SkipSpace(_, _)
SkipSpace(m, j) ==
    IF j <= Len(m) /\ m[j] \in Space THEN SkipSpace(m, j + 1) ELSE j

\* a faulty variant of TakeDigits: \d in place of \d+
TakeOneDigit(m, j) ==
    IF j <= Len(m) /\ m[j] \in Digit THEN <<m[j]>> ELSE <<>>

RECURSIVE TakeDigits(_, _)
TakeDigits(m, j) ==
    IF j <= Len(m) /\ m[j] \in Digit
    THEN <<m[j]>> \o TakeDigits(m, j + 1)
    ELSE <<>>

\* The first capture group of the leftmost match starting at i or later;
\* <<>> when there is no match (a capture of \d+ is never empty).
RECURSIVE MatchFrom(_, _)
MatchFrom(m, i) ==
    IF i > Len(m) THEN <<>>
    ELSE IF LiteralAt(m, i)
              /\ TakeDigits(m, SkipSpace(m, i + Len(Literal))) # <<>>
         THEN TakeDigits(m, SkipSpace(m, i + Len(Literal)))
         ELSE MatchFrom(m, i + 1)

Match(m) == MatchFrom(m, 1)

\* ---- the errors and responses an awaited upstream call can produce ----
\* An awaited call either resolves ([ok |-> TRUE, value |-> v]) or rejects
\* ([ok |-> FALSE, error |-> e]).
Resolved(v) == [ok |-> TRUE, value |-> v]
Rejected(e) == [ok |-> FALSE, error |-> e]

\* axios: a 2xx response object
AxiosResponse(data) == [t |-> "object", status |-> Num(200), data |-> data]
\* axios: the error of a non-2xx response (error.response is set) ...
HttpError(status, data) ==
    [t |-> "object", name |-> Str(<<"A", "x", "i", "o", "s", "E", "r", "r", "o", "r">>), message |-> Str(<<"R", "e", "q", "u", "e", "s", "t", " ", "f", "a", "i", "l", "e", "d">>),
     response |-> [t |-> "object", status |-> Num(status), data |-> data]]
\* ... and of a request that got no response (error.response is undefined)
NetworkError ==
    [t |-> "object", name |-> Str(<<"A", "x", "i", "o", "s", "E", "r", "r", "o", "r">>), message |-> Str(<<"N", "e", "t", "w", "o", "r", "k", " ", "E", "r", "r", "o", "r">>)]
\* @hubspot/api-client: the ApiException of a non-2xx response; the payload is
\* in error.body, the message is a text rendering of code and body
ApiException(code, body) ==
    [t |-> "object", name |-> Str(<<"E", "r", "r", "o", "r">>), message |-> Str(<<"H", "T", "T", "P", "-", "C", "o", "d", "e", ":", " ", "4", "0", "0">>),
     code |-> Num(code), body |-> body]
\* an Error with an empty message
BareError == [t |-> "object", name |-> Str(<<"E", "r", "r", "o", "r">>), message |-> Str(<<>>)]
\* the TypeError of a property access on null or undefined, or of a call of
\* something that is not a function
TypeError == [t |-> "object", name |-> Str(<<"T", "y", "p", "e", "E", "r", "r", "o", "r">>), message |-> Str(<<"n", "o", "t", " ", "a", " ", "f", "u", "n", "c", "t", "i", "o", "n">>)]

\* String(error) for an Error object: its name, then ": " and its message
\* unless the message is empty
StringOf(error) ==
    IF Truthy(Get(error, "message"))
    THEN Str(Get(error, "name").v \o <<":", " ">> \o Get(error, "message").v)
    ELSE Get(error, "name")

\* the CRM's error payload, {category, message, ...}
ErrorPayload(category, message) ==
    [t |-> "object", category |-> category, message |-> message]

CONFLICT == <<"C", "O", "N", "F", "L", "I", "C", "T">>
VALIDATION_ERROR == <<"V", "A", "L", "I", "D", "A", "T", "I", "O", "N", "_", "E", "R", "R", "O", "R">>

\* messages of an error payload
MWithId == <<"d", "u", "p", ".", " ", "E", "x", "i", "s", "t", "i", "n", "g", " ", "I", "D", ":", " ", "1", "7", "9">>
MNoSpace == <<"E", "x", "i", "s", "t", "i", "n", "g", " ", "I", "D", ":", "4", "2">>
MNoDigits == <<"E", "x", "i", "s", "t", "i", "n", "g", " ", "I", "D", ":", " ", "n", "o", "n", "e">>
MSecond == <<"E", "x", "i", "s", "t", "i", "n", "g", " ", "I", "D", ":", " ", "x", " ", "E", "x", "i", "s", "t", "i", "n", "g", " ", "I", "D", ":", " ", " ", "7", ".">>
MLower == <<"e", "x", "i", "s", "t", "i", "n", "g", " ", "i", "d", ":", " ", "5">>
MZeroId == <<"E", "x", "i", "s", "t", "i", "n", "g", " ", "I", "D", ":", " ", "0">>
MOther == <<"b", "a", "d", " ", "r", "e", "q", "u", "e", "s", "t">>
MTab == <<"E", "x", "i", "s", "t", "i", "n", "g", " ", "I", "D", ":", "\t", "\n", "8", "a", "9">>

Messages(env) ==
    IF env = "rich"
    THEN {Undef, Str(<<>>), Num(12), Str(MWithId), Str(MNoSpace),
          Str(MNoDigits), Str(MSecond), Str(MLower), Str(MZeroId),
          Str(MOther), Str(MTab)}
    ELSE {Str(MWithId), Str(MOther), Num(12)}

Categories(env) ==
    IF env = "rich"
    THEN {Undef, Str(CONFLICT), Str(VALIDATION_ERROR)}
    ELSE {Str(CONFLICT)}

\* the failures of an axios call other than the creation of a contact
AxiosFailures(env) ==
    IF env = "rich"
    THEN {NetworkError, HttpError(500, Str(<<>>)),
          HttpError(400, ErrorPayload(Str(VALIDATION_ERROR), Str(MOther)))}
    ELSE {NetworkError,
          HttpError(400, ErrorPayload(Str(VALIDATION_ERROR), Str(MOther)))}

\* the failures of POST /crm/v3/objects/contacts
ContactFailures(env) ==
    IF env = "rich"
    THEN {NetworkError}
         \cup {HttpError(s, Str(<<>>)) : s \in {CONFLICT_STATUS, 400}}
         \cup {HttpError(s, ErrorPayload(c, m)) :
                 s \in {CONFLICT_STATUS, 400}, c \in Categories(env),
                 m \in Messages(env)}
    ELSE {HttpError(CONFLICT_STATUS, ErrorPayload(c, m)) :
                 c \in Categories(env), m \in Messages(env)}

\* the failures of hubspotClient.crm.contacts.searchApi.doSearch
SearchFailures(env) ==
    IF env = "rich"
    THEN {ApiException(400, ErrorPayload(Str(VALIDATION_ERROR), Str(MOther))),
          BareError}
    ELSE {BareError}

\* ---- CRM records ----
Contact(id) == [t |-> "object", id |-> Str(id), properties |-> [t |-> "object", email |-> Str(<<"a", "@", "b", ".", "c">>)]]
Deal(id) == [t |-> "object", id |-> id, properties |-> [t |-> "object", dealname |-> Str(<<"d", "e", "a", "l">>)]]
DealNoId == [t |-> "object", properties |-> [t |-> "object", dealname |-> Str(<<"d", "e", "a", "l">>)]]
Association(toObjectId) == [t |-> "object", toObjectId |-> toObjectId]

DealIds == {Str(<<"d", "1">>), Str(<<"d", "2">>)}
ToObjectIds == {Undef, Num(11), Num(22)}

\* ---- state ----
VARIABLES
    config,   \* HUBSPOT_ACCESS_TOKEN and HUBSPOT_API_BASE, as the clients hold them
    req,      \* per slot: the inbound request (route and inputs)
    pc,       \* per slot: "idle", "await1", "await2", "done", "uncaught"
    calls,    \* per slot: the upstream calls the handler has issued, in order
    replies,  \* per slot: the outcomes of the upstream calls it has awaited
    deal,     \* per slot: `deal` of POST /api/deals, alive across the second await
    res,      \* per slot: the response sent (status and JSON body)
    sent      \* per slot: how many responses were sent

vars == <<config, req, pc, calls, replies, deal, res, sent>>

GET_CONTACTS == "GET /api/contacts"
POST_CONTACTS == "POST /api/contacts"
GET_CONTACT_BY_EMAIL == "GET /api/contacts/by-email"
GET_DEALS == "GET /api/deals"
POST_DEALS == "POST /api/deals"
GET_CONTACT_DEALS == "GET /api/contacts/:contactId/deals"

\* An inbound request: the route, and of req.body, req.query and req.params
\* the fields the handlers read (express.json() has parsed the body).
Request(route, properties, email, dealProperties, contactId) ==
    [route |-> route, properties |-> properties, email |-> email,
     dealProperties |-> dealProperties, contactId |-> contactId]

NoRequest == Request("none", Undef, Undef, Undef, Undef)
NoResponse == [status |-> 0, body |-> Undef]

\* what a client can send
PropertiesIn == {Undef, Str(<<>>), EmptyObject,
                 [t |-> "object", email |-> Str(<<"a", "@", "b", ".", "c">>)]}
EmailIn == {Undef, Str(<<>>), Str(<<"a", "@", "b", ".", "c">>)}
DealPropertiesIn == {Undef, [t |-> "object", dealname |-> Str(<<"d", "e", "a", "l">>)]}
ContactIdIn == {Undef, Str(<<>>), Str(<<"k", "1">>)}
ContactIdParam == {Str(<<"k", "1">>)}

Init ==
    /\ config = [accessToken |-> HUBSPOT_ACCESS_TOKEN, baseURL |-> HUBSPOT_API_BASE]
    /\ req = [r \in Req |-> NoRequest]
    /\ pc = [r \in Req |-> "idle"]
    /\ calls = [r \in Req |-> <<>>]
    /\ replies = [r \in Req |-> <<>>]
    /\ deal = [r \in Req |-> Undef]
    /\ res = [r \in Req |-> NoResponse]
    /\ sent = [r \in Req |-> 0]

\* ---- what a handler segment does when it ends ----
\* res.status(status).json(body)
Respond(status, body) == [kind |-> "respond", status |-> status, body |-> body]
\* await of an upstream call; `local` is the value of `deal` the segment leaves
Call(op, arg, local) == [kind |-> "call", op |-> op, arg |-> arg, local |-> local]
\* an exception leaves the async handler: its promise rejects, and the
\* handler sends nothing
Uncaught == [kind |-> "uncaught"]

\* a faulty variant of StoreDeal: `deal` declared once, at module level
StoreDealShared(d, r, v) == [q \in DOMAIN d |-> v]

\* const deal = ...: block-scoped, one per invocation of the handler
StoreDeal(d, r, v) == [d EXCEPT ![r] = v]

\* the request an upstream client sends: both clients were built once, from
\* the configuration
Outbound(op, arg) ==
    [op |-> op, arg |-> arg, auth |-> config.accessToken, baseURL |-> config.baseURL]

Apply(r, o, next) ==
    /\ config' = config
    /\ CASE o.kind = "respond" ->
              /\ res' = [res EXCEPT ![r] = [status |-> o.status, body |-> o.body]]
              /\ sent' = [sent EXCEPT ![r] = @ + 1]
              /\ pc' = [pc EXCEPT ![r] = "done"]
              /\ UNCHANGED <<calls, deal>>
         [] o.kind = "call" ->
              /\ calls' = [calls EXCEPT ![r] = Append(@, Outbound(o.op, o.arg))]
              /\ deal' = StoreDeal(deal, r, o.local)
              /\ pc' = [pc EXCEPT ![r] = next]
              /\ UNCHANGED <<res, sent>>
         [] OTHER ->
              /\ pc' = [pc EXCEPT ![r] = "uncaught"]
              /\ UNCHANGED <<calls, deal, res, sent>>

\* a request arrives at a free slot and the handler runs to its first await
\* (or to its response); when requests do not overlap, a request arrives
\* only after the previous one was answered
Arrive(r, request, o, overlap) ==
    /\ pc[r] = "idle"
    /\ overlap \/ \A q \in Req : pc[q] = "idle"
    /\ req' = [req EXCEPT ![r] = request]
    /\ replies' = replies
    /\ Apply(r, o, "await1")

\* the awaited call settles and the handler resumes
Resume(r, at, route, reply, o) ==
    /\ pc[r] = at
    /\ req[r].route = route
    /\ replies' = [replies EXCEPT ![r] = Append(@, reply)]
    /\ req' = req
    /\ Apply(r, o, "await2")

\* a faulty variant of Details: error.message alone
DetailsMessageOnly(error) == Get(error, "message")

\* error.response?.data || error.message
Details(error) == Or(Get(Get(error, "response"), "data"), Get(error, "message"))

ErrorBody(label, details) == [t |-> "object", error |-> label, details |-> details]

\* ---- GET /api/contacts ----
ContactProperties == "firstname,lastname,email,phone,address,jobtitle,company"

GetContacts ==
    Call("GET /crm/v3/objects/contacts",
         [limit |-> CONTACTS_LIMIT, properties |-> ContactProperties], Undef)

GetContactsCatch(error) ==
    Respond(500, ErrorBody("Failed to fetch contacts", Details(error)))

GetContactsResume(reply) ==
    IF ~reply.ok THEN GetContactsCatch(reply.error)
    ELSE LET response == reply.value IN
         IF Throws(Get(response, "data")) THEN GetContactsCatch(TypeError)
         ELSE Respond(200, [t |-> "object",
                            results |-> Or(Get(Get(response, "data"), "results"),
                                           Arr(<<>>))])

\* ---- POST /api/contacts ----
PostContacts(request) ==
    LET contactData == [properties |-> request.properties] IN
    Call("POST /crm/v3/objects/contacts", contactData, Undef)

\* statusCode === 409 || category === 'CONFLICT'
IsConflict(statusCode, category) ==
    statusCode = Num(CONFLICT_STATUS) \/ category = Str(CONFLICT)

\* properties: req.body.properties || {}
ExistingProperties(request) == Or(request.properties, EmptyObject)

\* details: hubspotError || message
ConflictDetails(hubspotError, message) == Or(hubspotError, message)

PostContactsCatch(request, error) ==
    LET hubspotError == Get(Get(error, "response"), "data")
        statusCode == Get(Get(error, "response"), "status")
        category == Get(hubspotError, "category")
        message == Or(Get(hubspotError, "message"), Str(<<>>))
    IN  IF IsConflict(statusCode, category)
        THEN IF message.t # "string"
             THEN Uncaught    \* message.match is not a function
             ELSE LET existingId == Match(message.v) IN
                  IF existingId # <<>>
                  THEN Respond(200, [t |-> "object",
                                     id |-> Str(existingId),
                                     properties |-> ExistingProperties(request),
                                     existing |-> TRUE])
                  ELSE Respond(CONFLICT_STATUS,
                               ErrorBody("Contact already exists",
                                         ConflictDetails(hubspotError, message)))
        ELSE Respond(500, ErrorBody("Failed to create contact",
                                    Or(hubspotError, Get(error, "message"))))

PostContactsResume(request, reply) ==
    IF ~reply.ok THEN PostContactsCatch(request, reply.error)
    ELSE Respond(200, Get(reply.value, "data"))

\* ---- GET /api/contacts/by-email ----
SearchRequest(email) ==
    [propertyName |-> "email", operator |-> "EQ", value |-> email,
     properties |-> "firstname,lastname,email", limit |-> SEARCH_LIMIT]

GetContactByEmail(request) ==
    LET email == request.email IN
    IF ~Truthy(email)
    THEN Respond(400, ErrorBody("Missing email parameter",
                                Str(<<"?", "e", "m", "a", "i", "l", "=">>)))
    ELSE Call("crm.contacts.searchApi.doSearch", SearchRequest(email), Undef)

\* details: error.message || String(error)
GetContactByEmailCatch(error) ==
    Respond(500, ErrorBody("Failed to search contact by email",
                           Or(Get(error, "message"), StringOf(error))))

GetContactByEmailResume(reply) ==
    IF ~reply.ok THEN GetContactByEmailCatch(reply.error)
    ELSE LET response == reply.value IN
         IF Throws(response) THEN GetContactByEmailCatch(TypeError)
         ELSE LET results == Or(Get(response, "results"), Arr(<<>>)) IN
              IF Len(results.v) = 0
              THEN Respond(200, [t |-> "object", found |-> FALSE])
              ELSE LET contact == results.v[1] IN
                   IF Throws(contact) THEN GetContactByEmailCatch(TypeError)
                   ELSE Respond(200, [t |-> "object", found |-> TRUE,
                                      contact |-> [t |-> "object",
                                                   id |-> Get(contact, "id"),
                                                   properties |-> Get(contact, "properties")]])

\* ---- GET /api/deals ----
DealProperties == "dealname,amount,dealstage,closedate,pipeline"

GetDeals ==
    Call("GET /crm/v3/objects/deals",
         [limit |-> DEALS_LIMIT, properties |-> DealProperties], Undef)

GetDealsCatch(error) ==
    Respond(500, ErrorBody("Failed to fetch deals", Details(error)))

GetDealsResume(reply) ==
    IF ~reply.ok THEN GetDealsCatch(reply.error)
    ELSE LET response == reply.value IN
         IF Throws(Get(response, "data")) THEN GetDealsCatch(TypeError)
         ELSE Respond(200, [t |-> "object",
                            results |-> Or(Get(Get(response, "data"), "results"),
                                           Arr(<<>>))])

\* ---- POST /api/deals ----
\* a faulty variant of PostDeals: && in place of || in the validation
PostDealsBothMissing(request) ==
    LET dealProperties == request.dealProperties
        contactId == request.contactId
    IN  IF ~Truthy(dealProperties) /\ ~Truthy(contactId)
        THEN Respond(400, ErrorBody("Missing dealProperties or contactId",
                                    Str(<<"b", "o", "d", "y">>)))
        ELSE Call("POST /crm/v3/objects/deals", [properties |-> dealProperties],
                  Undef)

PostDeals(request) ==
    LET dealProperties == request.dealProperties
        contactId == request.contactId
    IN  IF ~Truthy(dealProperties) \/ ~Truthy(contactId)
        THEN Respond(400, ErrorBody("Missing dealProperties or contactId",
                                    Str(<<"b", "o", "d", "y">>)))
        ELSE Call("POST /crm/v3/objects/deals", [properties |-> dealProperties],
                  Undef)

PostDealsCatch(error) ==
    Respond(500, ErrorBody("Failed to create deal", Details(error)))

\* a faulty variant of PostDealsCreated: the deal is returned as soon as it
\* is created, without the association
PostDealsCreatedNoAssociate(request, reply) ==
    IF ~reply.ok THEN PostDealsCatch(reply.error)
    ELSE LET deal_ == Get(reply.value, "data") IN
         IF Throws(deal_) THEN PostDealsCatch(TypeError)
         ELSE Respond(200, deal_)

\* after `await hubspotAxios.post('/crm/v3/objects/deals', ...)`
PostDealsCreated(request, reply) ==
    IF ~reply.ok THEN PostDealsCatch(reply.error)
    ELSE LET dealResponse == reply.value
             deal_ == Get(dealResponse, "data")
         IN  IF Throws(deal_) THEN PostDealsCatch(TypeError)
             ELSE LET dealId == Get(deal_, "id") IN
                  Call("PUT /crm/v3/objects/deals/:dealId/associations/contacts/:contactId/:typeId",
                       [dealId |-> dealId, contactId |-> request.contactId,
                        typeId |-> ASSOCIATION_TYPE_ID],
                       deal_)

\* a faulty variant of PostDealsAssociated: a failed association is ignored
PostDealsAssociatedIgnoreFailure(deal_, reply) == Respond(200, deal_)

\* after `await hubspotAxios.put(...)`
PostDealsAssociated(deal_, reply) ==
    IF ~reply.ok THEN PostDealsCatch(reply.error)
    ELSE Respond(200, deal_)

\* ---- GET /api/contacts/:contactId/deals ----
GetContactDeals(request) ==
    LET contactId == request.contactId IN
    Call("GET /crm/v4/objects/contacts/:contactId/associations/deals",
         [contactId |-> contactId, limit |-> ASSOCIATIONS_LIMIT], Undef)

GetContactDealsCatch(error) ==
    Respond(500, ErrorBody("Failed to fetch deals for contact", Details(error)))

\* associations.map((assoc) => assoc.toObjectId).filter(Boolean)
RECURSIVE MapFilter(_)
MapFilter(associations) ==
    IF associations = <<>> THEN <<>>
    ELSE LET toObjectId == Get(Head(associations), "toObjectId") IN
         (IF Truthy(toObjectId) THEN <<toObjectId>> ELSE <<>>)
         \o MapFilter(Tail(associations))

\* a faulty variant of Inputs: the first id only
InputsFirst(dealIds) == <<[t |-> "object", id |-> dealIds[1]]>>

\* dealIds.map((id) => ({ id }))
Inputs(dealIds) == [i \in 1..Len(dealIds) |-> [t |-> "object", id |-> dealIds[i]]]

\* a faulty variant of GetContactDealsListed: no early return when there is
\* nothing to read
GetContactDealsListedNoSkip(reply) ==
    IF ~reply.ok THEN GetContactDealsCatch(reply.error)
    ELSE LET assocResponse == reply.value IN
         IF Throws(Get(assocResponse, "data")) THEN GetContactDealsCatch(TypeError)
         ELSE LET associations == Or(Get(Get(assocResponse, "data"), "results"), Arr(<<>>))
                  dealIds == MapFilter(associations.v)
              IN  Call("POST /crm/v3/objects/deals/batch/read",
                       [properties |-> DealProperties,
                        inputs |-> Arr(Inputs(dealIds))],
                       Undef)

\* after `await hubspotAxios.get('/crm/v4/objects/contacts/.../associations/deals')`
GetContactDealsListed(reply) ==
    IF ~reply.ok THEN GetContactDealsCatch(reply.error)
    ELSE LET assocResponse == reply.value IN
         IF Throws(Get(assocResponse, "data")) THEN GetContactDealsCatch(TypeError)
         ELSE LET associations == Or(Get(Get(assocResponse, "data"), "results"), Arr(<<>>))
                  dealIds == MapFilter(associations.v)
              IN  IF Len(dealIds) = 0
                  THEN Respond(200, [t |-> "object", results |-> Arr(<<>>)])
                  ELSE Call("POST /crm/v3/objects/deals/batch/read",
                            [properties |-> DealProperties,
                             inputs |-> Arr(Inputs(dealIds))],
                            Undef)

\* after `await hubspotAxios.post('/crm/v3/objects/deals/batch/read', ...)`
GetContactDealsRead(reply) ==
    IF ~reply.ok THEN GetContactDealsCatch(reply.error)
    ELSE LET batchResponse == reply.value IN
         IF Throws(Get(batchResponse, "data")) THEN GetContactDealsCatch(TypeError)
         ELSE LET deals == Or(Get(Get(batchResponse, "data"), "results"), Arr(<<>>)) IN
              Respond(200, [t |-> "object", results |-> deals])

\* ---- the environment: clients and the CRM ----
\* env = "rich": every input and upstream outcome of the samples above;
\* env = "lean": a few of them, for the runs in which requests overlap
SeqsUpTo(S, n) == UNION {[1..k -> S] : k \in 0..n}

RECURSIVE Pick(_, _)
Pick(s, keep) ==
    IF s = <<>> THEN <<>>
    ELSE (IF keep[1] THEN <<Head(s)>> ELSE <<>>)
         \o Pick(Tail(s), [i \in 1..(Len(s) - 1) |-> keep[i + 1]])

\* the sequences left of s when the CRM omits some of its elements
SubSeqs(s) == {Pick(s, keep) : keep \in [1..Len(s) -> BOOLEAN]}

Requests(env) ==
    {Request(GET_CONTACTS, Undef, Undef, Undef, Undef),
     Request(GET_DEALS, Undef, Undef, Undef, Undef)}
    \cup {Request(POST_CONTACTS, p, Undef, Undef, Undef) :
            p \in IF env = "rich" THEN PropertiesIn
                  ELSE {[t |-> "object", email |-> Str(<<"a", "@", "b", ".", "c">>)]}}
    \cup {Request(GET_CONTACT_BY_EMAIL, Undef, e, Undef, Undef) :
            e \in IF env = "rich" THEN EmailIn
                  ELSE {Undef, Str(<<"a", "@", "b", ".", "c">>)}}
    \cup {Request(POST_DEALS, Undef, Undef, d, c) :
            d \in DealPropertiesIn,
            c \in IF env = "rich" THEN ContactIdIn ELSE {Str(<<"k", "1">>)}}
    \cup {Request(GET_CONTACT_DEALS, Undef, Undef, Undef, c) : c \in ContactIdParam}

RequestsTo(env, route) == {q \in Requests(env) : q.route = route}

Failures(S) == {Rejected(e) : e \in S}
Successes(S) == {Resolved(AxiosResponse(d)) : d \in S}

ListReplies(env, records) ==
    Failures(AxiosFailures(env))
    \cup Successes(IF env = "rich"
                   THEN {Null, EmptyObject, [t |-> "object", results |-> Arr(<<>>)],
                         [t |-> "object", results |-> Arr(records)]}
                   ELSE {[t |-> "object", results |-> Arr(records)]})

CreateContactReplies(env, request) ==
    Failures(ContactFailures(env))
    \cup Successes({[t |-> "object", id |-> Str(<<"k", "2">>),
                     properties |-> request.properties]}
                   \cup IF env = "rich" THEN {Null} ELSE {})

SearchReplies(env) ==
    Failures(SearchFailures(env))
    \cup {Resolved(v) :
            v \in IF env = "rich"
                  THEN {Undef, EmptyObject, [t |-> "object", results |-> Arr(<<>>)],
                        [t |-> "object", results |-> Arr(<<Contact(<<"k", "1">>)>>)],
                        [t |-> "object", results |-> Arr(<<Null>>)],
                        [t |-> "object",
                         results |-> Arr(<<Contact(<<"k", "1">>), Contact(<<"k", "2">>)>>)]}
                  ELSE {[t |-> "object", results |-> Arr(<<Contact(<<"k", "1">>)>>)]}}

CreateDealReplies(env) ==
    Failures(AxiosFailures(env))
    \cup Successes({Deal(id) : id \in DealIds}
                   \cup IF env = "rich" THEN {DealNoId, Null} ELSE {})

AssociateReplies(env) ==
    Failures(AxiosFailures(env)) \cup Successes({EmptyObject})

AssociationListReplies(env) ==
    Failures(AxiosFailures(env))
    \cup Successes({[t |-> "object",
                     results |-> Arr([i \in 1..Len(s) |-> Association(s[i])])] :
                       s \in SeqsUpTo(IF env = "rich" THEN ToObjectIds ELSE {Num(11)},
                                      MaxAssoc)}
                   \cup IF env = "rich" THEN {Null, EmptyObject} ELSE {})

\* the CRM answers a batch read with the records of the ids requested, or
\* of some of them
BatchReadReplies(env, call) ==
    LET requested == [i \in 1..Len(call.arg.inputs.v) |-> Deal(call.arg.inputs.v[i].id)] IN
    Failures(AxiosFailures(env))
    \cup Successes(IF env = "rich"
                   THEN {[t |-> "object", results |-> Arr(s)] : s \in SubSeqs(requested)}
                        \cup {Null, EmptyObject}
                   ELSE {[t |-> "object", results |-> Arr(requested)]})

\* ---- actions ----
GetContactsArrive(r, env, overlap) ==
    /\ pc[r] = "idle"
    /\ \E request \in RequestsTo(env, GET_CONTACTS) :
       Arrive(r, request, GetContacts, overlap)

GetContactsSettle(r, env) ==
    /\ pc[r] = "await1"
    /\ \E reply \in ListReplies(env, <<Contact(<<"k", "1">>)>>) :
       Resume(r, "await1", GET_CONTACTS, reply, GetContactsResume(reply))

PostContactsArrive(r, env, overlap) ==
    /\ pc[r] = "idle"
    /\ \E request \in RequestsTo(env, POST_CONTACTS) :
       Arrive(r, request, PostContacts(request), overlap)

PostContactsSettle(r, env) ==
    /\ pc[r] = "await1"
    /\ \E reply \in CreateContactReplies(env, req[r]) :
       Resume(r, "await1", POST_CONTACTS, reply, PostContactsResume(req[r], reply))

GetContactByEmailArrive(r, env, overlap) ==
    /\ pc[r] = "idle"
    /\ \E request \in RequestsTo(env, GET_CONTACT_BY_EMAIL) :
       Arrive(r, request, GetContactByEmail(request), overlap)

GetContactByEmailSettle(r, env) ==
    /\ pc[r] = "await1"
    /\ \E reply \in SearchReplies(env) :
       Resume(r, "await1", GET_CONTACT_BY_EMAIL, reply, GetContactByEmailResume(reply))

GetDealsArrive(r, env, overlap) ==
    /\ pc[r] = "idle"
    /\ \E request \in RequestsTo(env, GET_DEALS) :
       Arrive(r, request, GetDeals, overlap)

GetDealsSettle(r, env) ==
    /\ pc[r] = "await1"
    /\ \E reply \in ListReplies(env, <<Deal(Str(<<"d", "1">>))>>) :
       Resume(r, "await1", GET_DEALS, reply, GetDealsResume(reply))

PostDealsArrive(r, env, overlap) ==
    /\ pc[r] = "idle"
    /\ \E request \in RequestsTo(env, POST_DEALS) :
       Arrive(r, request, PostDeals(request), overlap)

PostDealsCreateSettle(r, env) ==
    /\ pc[r] = "await1"
    /\ \E reply \in CreateDealReplies(env) :
       Resume(r, "await1", POST_DEALS, reply, PostDealsCreated(req[r], reply))

PostDealsAssociateSettle(r, env) ==
    /\ pc[r] = "await2"
    /\ \E reply \in AssociateReplies(env) :
       Resume(r, "await2", POST_DEALS, reply, PostDealsAssociated(deal[r], reply))

GetContactDealsArrive(r, env, overlap) ==
    /\ pc[r] = "idle"
    /\ \E request \in RequestsTo(env, GET_CONTACT_DEALS) :
       Arrive(r, request, GetContactDeals(request), overlap)

GetContactDealsListSettle(r, env) ==
    /\ pc[r] = "await1"
    /\ \E reply \in AssociationListReplies(env) :
       Resume(r, "await1", GET_CONTACT_DEALS, reply, GetContactDealsListed(reply))

GetContactDealsReadSettle(r, env) ==
    /\ pc[r] = "await2"
    /\ req[r].route = GET_CONTACT_DEALS
    /\ \E reply \in BatchReadReplies(env, calls[r][Len(calls[r])]) :
        Resume(r, "await2", GET_CONTACT_DEALS, reply, GetContactDealsRead(reply))

\* the exchange is over (the response was written, or the client gave up on
\* a request that was never answered) and its objects are garbage
Close(r) ==
    /\ pc[r] \in {"done", "uncaught"}
    /\ req' = [req EXCEPT ![r] = NoRequest]
    /\ pc' = [pc EXCEPT ![r] = "idle"]
    /\ calls' = [calls EXCEPT ![r] = <<>>]
    /\ replies' = [replies EXCEPT ![r] = <<>>]
    /\ deal' = [deal EXCEPT ![r] = Undef]
    /\ res' = [res EXCEPT ![r] = NoResponse]
    /\ sent' = [sent EXCEPT ![r] = 0]
    /\ config' = config

Step(r, env, overlap) ==
    \/ GetContactsArrive(r, env, overlap)
    \/ GetContactsSettle(r, env)
    \/ PostContactsArrive(r, env, overlap)
    \/ PostContactsSettle(r, env)
    \/ GetContactByEmailArrive(r, env, overlap)
    \/ GetContactByEmailSettle(r, env)
    \/ GetDealsArrive(r, env, overlap)
    \/ GetDealsSettle(r, env)
    \/ PostDealsArrive(r, env, overlap)
    \/ PostDealsCreateSettle(r, env)
    \/ PostDealsAssociateSettle(r, env)
    \/ GetContactDealsArrive(r, env, overlap)
    \/ GetContactDealsListSettle(r, env)
    \/ GetContactDealsReadSettle(r, env)
    \/ Close(r)

\* requests that do not overlap, every sampled input and upstream outcome
Next == \E r \in Req : Step(r, "rich", FALSE)

Spec == Init /\ [][Next]_vars

\* requests that overlap in any way, the lean sample
NextConc == \E r \in Req : Step(r, "lean", TRUE)

SpecConc == Init /\ [][NextConc]_vars

\* ======================= properties =======================
CREATE_DEAL == "POST /crm/v3/objects/deals"
ASSOCIATE == "PUT /crm/v3/objects/deals/:dealId/associations/contacts/:contactId/:typeId"
LIST_ASSOCIATIONS == "GET /crm/v4/objects/contacts/:contactId/associations/deals"
BATCH_READ == "POST /crm/v3/objects/deals/batch/read"

\* the upstream operations slot r has issued, in order
Ops(r) == [i \in 1..Len(calls[r]) |-> calls[r][i].op]

\* the k-th awaited call of r has settled, and resolved
Ok(r, k) == Len(replies[r]) >= k /\ replies[r][k].ok
\* ... with a body that is an object
Data(r, k) == replies[r][k].value.data
OkData(r, k) == Ok(r, k) /\ Data(r, k).t = "object"
\* the k-th awaited call of r has settled, and rejected
Failed(r, k) == Len(replies[r]) >= k /\ ~replies[r][k].ok

ValidDeal(r) ==
    /\ req[r].route = POST_DEALS
    /\ Truthy(req[r].dealProperties)
    /\ Truthy(req[r].contactId)

\* C1, as claimed: a POST /api/deals request with dealProperties and
\* contactId present has, once answered, issued exactly the two calls create
\* and associate, and is answered with the deal the create call returned.
C1_AsClaimed ==
    \A r \in Req :
        ValidDeal(r) /\ pc[r] = "done" =>
            /\ Ops(r) = <<CREATE_DEAL, ASSOCIATE>>
            /\ Ok(r, 1)
            /\ res[r] = [status |-> 200, body |-> Data(r, 1)]

\* C1, amended: a POST /api/deals request with dealProperties and contactId
\* present issues the create call first; the associate call is issued only
\* once the create call has resolved, for the deal it returned and the contact
\* of the request; when the create call returns a deal record exactly the two
\* calls create, associate are issued; and when the associate call succeeds
\* too the response is the deal record the create call returned.
C1_CreateThenAssociate ==
    \A r \in Req :
        ValidDeal(r) =>
            /\ Len(calls[r]) \in {1, 2}
            /\ calls[r][1].op = CREATE_DEAL
            /\ calls[r][1].arg = [properties |-> req[r].dealProperties]
            /\ pc[r] = "await1" => Len(calls[r]) = 1 /\ replies[r] = <<>>
            /\ Len(calls[r]) = 2 =>
                  /\ OkData(r, 1)
                  /\ calls[r][2].op = ASSOCIATE
                  /\ calls[r][2].arg.dealId = Get(Data(r, 1), "id")
                  /\ calls[r][2].arg.contactId = req[r].contactId
            /\ OkData(r, 1) => Len(calls[r]) = 2
            /\ OkData(r, 1) /\ Ok(r, 2) =>
                  /\ pc[r] = "done"
                  /\ sent[r] = 1
                  /\ res[r] = [status |-> 200, body |-> Data(r, 1)]

C1_Witness ==
    \E r \in Req :
        /\ ValidDeal(r) /\ pc[r] = "done" /\ OkData(r, 1) /\ Ok(r, 2)
        /\ Ops(r) = <<CREATE_DEAL, ASSOCIATE>>
        /\ res[r].status = 200

\* C2: a POST /api/deals request missing dealProperties or contactId, and a
\* GET /api/contacts/by-email request without an email, is answered with 400
\* and never issues an upstream call.
InvalidRequest(r) ==
    \/ /\ req[r].route = POST_DEALS
       /\ ~Truthy(req[r].dealProperties) \/ ~Truthy(req[r].contactId)
    \/ /\ req[r].route = GET_CONTACT_BY_EMAIL
       /\ ~Truthy(req[r].email)

C2_ValidationFailure ==
    \A r \in Req :
        InvalidRequest(r) =>
            /\ calls[r] = <<>>
            /\ replies[r] = <<>>
            /\ pc[r] = "done"
            /\ sent[r] = 1
            /\ res[r].status = 400

C2_Witness ==
    \E r \in Req :
        /\ req[r].route = POST_DEALS
        /\ Truthy(req[r].dealProperties)
        /\ req[r].contactId = Undef
        /\ res[r].status = 400
        /\ calls[r] = <<>>

\* ---- the conflict of a contact creation, read off the upstream error ----
ConflictReply(r) ==
    /\ req[r].route = POST_CONTACTS
    /\ Failed(r, 1)
    /\ LET error == replies[r][1].error IN
       /\ "response" \in DOMAIN error
       /\ \/ error.response.status = Num(CONFLICT_STATUS)
          \/ /\ error.response.data.t = "object"
             /\ error.response.data.category = Str(CONFLICT)

\* the payload and the message of the upstream error of a conflict
Payload(r) == replies[r][1].error.response.data
UpstreamMessage(r) ==
    IF Payload(r).t = "object" THEN Payload(r).message ELSE Undef

ExistingIdPrefix == Literal \o <<" ">>

\* m contains "Existing ID: " followed by a digit
HasExistingId(m) ==
    \E i \in 1..Len(m) :
        /\ i + Len(ExistingIdPrefix) <= Len(m)
        /\ SubSeq(m, i, i + Len(ExistingIdPrefix) - 1) = ExistingIdPrefix
        /\ m[i + Len(ExistingIdPrefix)] \in Digit

\* at i, m reads "Existing ID:", white space (if any), then the digits d and
\* no further digit
ReadsIdAt(m, i, d) ==
    /\ i + Len(Literal) - 1 <= Len(m)
    /\ SubSeq(m, i, i + Len(Literal) - 1) = Literal
    /\ \E j \in (i + Len(Literal))..Len(m) :
          /\ \A k \in (i + Len(Literal))..(j - 1) : m[k] \in Space
          /\ Len(d) >= 1
          /\ j + Len(d) - 1 <= Len(m)
          /\ SubSeq(m, j, j + Len(d) - 1) = d
          /\ \A k \in 1..Len(d) : d[k] \in Digit
          /\ j + Len(d) <= Len(m) => m[j + Len(d)] \notin Digit

Runs(m) == {SubSeq(m, a, b) : a \in 1..Len(m), b \in 1..Len(m)}

\* d is the id the pattern parses from m: the digits at its leftmost match
ParsedId(m, d) ==
    \E i \in 1..Len(m) :
        /\ ReadsIdAt(m, i, d)
        /\ \A h \in 1..(i - 1) : \A e \in Runs(m) : ~ReadsIdAt(m, h, e)

Parseable(x) == x.t = "string" /\ \E d \in Runs(x.v) : ParsedId(x.v, d)

C4_UnparsedConflict ==
    \A r \in Req :
        ConflictReply(r) /\ ~Parseable(UpstreamMessage(r)) =>
            /\ pc[r] = "done"
            /\ res[r].status = CONFLICT_STATUS
            /\ res[r].body.details = Payload(r)

\* C4 fails for the reason C9 fails: see C9_EveryRequestAnsweredOnce.

\* ---- the deals of a contact ----
Listed(r) ==
    /\ req[r].route = GET_CONTACT_DEALS
    /\ OkData(r, 1)
    /\ Get(Data(r, 1), "results").t = "array"

Associations(r) == Data(r, 1).results.v

\* the ids of all the associations listed, as a batch read takes them
AllIds(r) ==
    [i \in 1..Len(Associations(r)) |->
        [t |-> "object", id |-> Associations(r)[i].toObjectId]]

\* C5, as claimed: when the listing returns N >= 1 associations, exactly one
\* batch read is issued, for the ids of all N, and the response is
\* {results: R}, R the records the batch read returned.
C5_AsClaimed ==
    \A r \in Req :
        Listed(r) /\ Len(Associations(r)) >= 1 /\ pc[r] = "done" =>
            /\ Ops(r) = <<LIST_ASSOCIATIONS, BATCH_READ>>
            /\ calls[r][2].arg.inputs = Arr(AllIds(r))
            /\ OkData(r, 2)
            /\ res[r] = [status |-> 200,
                         body |-> [t |-> "object", results |-> Get(Data(r, 2), "results")]]

\* C5, amended: when the listing returns N >= 1 associations that each carry
\* a deal id, exactly one batch read is issued, for the ids of all N in the
\* order listed, and when the batch read returns a list R of records the
\* response is {results: R}.
C5_OneBatchRead ==
    \A r \in Req :
        /\ Listed(r)
        /\ Len(Associations(r)) >= 1
        /\ \A i \in 1..Len(Associations(r)) : Truthy(Associations(r)[i].toObjectId)
        => /\ Ops(r) = <<LIST_ASSOCIATIONS, BATCH_READ>>
           /\ calls[r][2].arg.inputs = Arr(AllIds(r))
           /\ Len(replies[r]) = 1 => pc[r] = "await2" /\ sent[r] = 0
           /\ OkData(r, 2) /\ Get(Data(r, 2), "results").t = "array" =>
                 /\ pc[r] = "done"
                 /\ sent[r] = 1
                 /\ res[r] = [status |-> 200,
                              body |-> [t |-> "object", results |-> Data(r, 2).results]]

C5_Witness ==
    \E r \in Req :
        /\ Listed(r)
        /\ Associations(r) = <<Association(Num(11)), Association(Num(22))>>
        /\ OkData(r, 2)
        /\ pc[r] = "done"
        /\ res[r].status = 200
        /\ res[r].body.results = Arr(<<Deal(Num(22))>>)

\* C6: when the listing succeeds with no association, the response is
\* {results: []} and the listing is the only upstream call of the request.
C6_NoBatchReadWithoutAssociations ==
    \A r \in Req :
        /\ req[r].route = GET_CONTACT_DEALS
        /\ OkData(r, 1)
        /\ Get(Data(r, 1), "results") \in {Undef, Arr(<<>>)}
        => /\ pc[r] = "done"
           /\ sent[r] = 1
           /\ res[r] = [status |-> 200, body |-> [t |-> "object", results |-> Arr(<<>>)]]
           /\ Ops(r) = <<LIST_ASSOCIATIONS>>
           /\ Len(replies[r]) = 1

C6_Witness ==
    \E r \in Req :
        /\ Listed(r)
        /\ Associations(r) = <<>>
        /\ pc[r] = "done"
        /\ Ops(r) = <<LIST_ASSOCIATIONS>>
        /\ res[r].body.results = Arr(<<>>)

\* C7: when the create call succeeds and the associate call fails, the
\* request is answered once, with a 500 built from the associate call's
\* error alone; create and associate are its only upstream calls.
C7_PartialFailure ==
    \A r \in Req :
        req[r].route = POST_DEALS /\ Ok(r, 1) /\ Failed(r, 2) =>
            /\ pc[r] = "done"
            /\ sent[r] = 1
            /\ res[r].status = 500
            /\ Ops(r) = <<CREATE_DEAL, ASSOCIATE>>
            /\ Len(replies[r]) = 2
            /\ DOMAIN res[r].body = {"t", "error", "details"}
            /\ res[r].body.error = "Failed to create deal"
            /\ \/ /\ "response" \in DOMAIN replies[r][2].error
                  /\ res[r].body.details = replies[r][2].error.response.data
               \/ res[r].body.details = replies[r][2].error.message
            /\ res[r].body.details # Data(r, 1)
            /\ res[r].body.details # Get(Data(r, 1), "id")

C7_Witness ==
    \E r \in Req :
        /\ req[r].route = POST_DEALS
        /\ Ok(r, 1) /\ Failed(r, 2)
        /\ Data(r, 1) = Deal(Str(<<"d", "1">>))
        /\ res[r].status = 500

\* ---- upstream failures ----
LastFailed(r) == replies[r] # <<>> /\ ~replies[r][Len(replies[r])].ok
LastError(r) == replies[r][Len(replies[r])].error

\* the payload the CRM sent with a failure: axios keeps it in
\* error.response.data, the HubSpot client in error.body
UpstreamPayload(error) ==
    IF "response" \in DOMAIN error THEN error.response.data
    ELSE IF "body" \in DOMAIN error THEN error.body
    ELSE Undef

\* C8, as claimed: on every route an upstream failure that is not a conflict
\* of a contact creation is answered 500, with as details the upstream
\* payload when there is one and the error message otherwise.
C8_AsClaimed ==
    \A r \in Req :
        LastFailed(r) /\ ~ConflictReply(r) =>
            /\ pc[r] = "done"
            /\ res[r].status = 500
            /\ IF Truthy(UpstreamPayload(LastError(r)))
               THEN res[r].body.details = UpstreamPayload(LastError(r))
               ELSE \/ res[r].body.details = LastError(r).message
                    \/ /\ LastError(r).message.v = <<>>
                       /\ res[r].body.details = LastError(r).name

\* C8, amended: that holds on the five routes that call the CRM through
\* axios; on find contact by email the failure is answered 500 with as
\* details the error's message (the error's name when the message is
\* empty), and never the upstream payload.
C8_UpstreamFailure ==
    \A r \in Req :
        LastFailed(r) /\ ~ConflictReply(r) =>
            /\ pc[r] = "done"
            /\ sent[r] = 1
            /\ res[r].status = 500
            /\ DOMAIN res[r].body = {"t", "error", "details"}
            /\ res[r].body.details =
                  IF req[r].route = GET_CONTACT_BY_EMAIL
                  THEN IF LastError(r).message.v # <<>>
                       THEN LastError(r).message
                       ELSE LastError(r).name
                  ELSE IF Truthy(UpstreamPayload(LastError(r)))
                       THEN UpstreamPayload(LastError(r))
                       ELSE LastError(r).message

C8_Witness ==
    \E r \in Req :
        /\ req[r].route = GET_CONTACT_BY_EMAIL
        /\ LastFailed(r)
        /\ Truthy(UpstreamPayload(LastError(r)))
        /\ res[r].status = 500
        /\ res[r].body.details = LastError(r).message

\* C9: no error leaves a handler uncaught, and a request whose handler has
\* ended has been answered exactly once (and no request more than once).
C9_EveryRequestAnsweredOnce ==
    \A r \in Req :
        /\ pc[r] # "uncaught"
        /\ sent[r] <= 1
        /\ pc[r] = "done" <=> sent[r] = 1

\* ---- requests that overlap ----
Slot(r) == <<req[r], pc[r], calls[r], replies[r], deal[r], res[r], sent[r]>>

\* two requests with the same input whose upstream calls had the same
\* outcomes have issued the same calls and got the same response; every
\* call went out with the credential and base URL of the startup
SameHistorySameOutcome ==
    /\ \A r, q \in Req :
          req[r] = req[q] /\ replies[r] = replies[q] =>
              /\ pc[r] = pc[q]
              /\ [i \in 1..Len(calls[r]) |-> <<calls[r][i].op, calls[r][i].arg>>]
                    = [i \in 1..Len(calls[q]) |-> <<calls[q][i].op, calls[q][i].arg>>]
              /\ res[r] = res[q]
    /\ \A r \in Req : \A i \in 1..Len(calls[r]) :
          /\ calls[r][i].auth = HUBSPOT_ACCESS_TOKEN
          /\ calls[r][i].baseURL = HUBSPOT_API_BASE

\* C10: a step of one request leaves the state of every other request and
\* the configuration as they were, and what a request issues and returns is
\* a function of its own input and the outcomes of its own upstream calls.
C10_Isolation ==
    [][/\ config' = config
       /\ \E r \in Req : \A q \in Req \ {r} : Slot(q)' = Slot(q)
       /\ SameHistorySameOutcome']_vars

C10_Witness ==
    \E r, q \in Req :
        /\ r # q
        /\ req[r].route = POST_DEALS
        /\ req[q] = req[r]
        /\ pc[r] = "done" /\ pc[q] = "done"
        /\ Len(replies[r]) = 2
        /\ replies[q] = replies[r]
        /\ res[r].status = 200

====
